---- MODULE Spec2Model ----
(***************************************************************************)
(* Model of the Tockloader protocol parser of src/lib.rs.                  *)
(*                                                                         *)
(* The parser state is the three fields of struct Parser.  One action,     *)
(* receive, models one call of Parser::receive with everything it calls    *)
(* (handle_loading, handle_escape, load_char, parse_u32).  The host that   *)
(* feeds the bytes sends the byte stream of tests::check_write (the        *)
(* address EF BE AD DE, then the bytes i & 0xFF, a 0xFC sent twice) and    *)
(* leaves that stream a bounded number of times, near the thresholds of    *)
(* count, to send a code after an escape byte or another unescaped byte.   *)
(* A panic ends the run: the call returns nothing and no call follows.     *)
(***************************************************************************)
EXTENDS Integers, Sequences, FiniteSets, TLC

VARIABLES
    state,      \* Parser.state: "Loading" or "Escape"
    buffer,     \* Parser.buffer: [0 .. 519 -> u8]
    count,      \* Parser.count
    result,     \* what the last call of receive returned (or that it panicked)
    touched,    \* the buffer indices the last call of receive read or wrote
    call,       \* the last call of receive: its byte, and state and count before it
    lits,       \* the unescaped bytes sent in the frame the last call belongs to
    codes,      \* how many escape bytes were followed by a byte other than 0xFC
    emitted,    \* how many calls of receive returned Some(_)
    odd         \* how many unescaped bytes that differ from the stream were sent

vars == <<state, buffer, count, result, touched, call, lits, codes, emitted, odd>>

(***************************************************************************)
(* Bounds of the host.                                                     *)
(***************************************************************************)
\* Number of times the host leaves the check_write stream: to send a code
\* after an escape byte, or an unescaped byte that differs from the stream.
MaxOff == 2
\* The host leaves the stream only when count is at most Edge, or at
\* least 515 (one short of a page with its address).
Edge == 4
\* Number of unescaped bytes the host sends in one frame beyond the 520
\* the buffer holds.
MaxOver == 2

(***************************************************************************)
(* Program constants.                                                      *)
(***************************************************************************)
BUFFER_LEN == 520
num_expected_bytes == 512 + 4
ESCAPE == 252

\* 2^16: a u32 is modelled by its two 16-bit halves.
HALF == 65536

\* The bytes the host chooses from after an escape byte (0x02 stands for
\* the unassigned codes), and the unescaped bytes it chooses from when it
\* leaves the stream (0xFF is the stray byte of check_ping).
Codes == {1, 2, 3, 5, 6, 7}
OddBytes == {252, 255}

(***************************************************************************)
(* Option<Command> values.  A WritePage carries a view of the buffer,      *)
(* buffer[from .. to), not a copy.                                         *)
(***************************************************************************)
None == [tag |-> "None"]
Some(cmd) == [tag |-> "Some", cmd |-> cmd]
Panic == [tag |-> "Panic"]

Ping == [name |-> "Ping"]
Info == [name |-> "Info"]
Reset == [name |-> "Reset"]
BadCommand == [name |-> "BadCommand"]
ErasePage(addr) == [name |-> "ErasePage", addr |-> addr]
WritePage(addr, from, to) == [name |-> "WritePage", addr |-> addr, from |-> from, to |-> to]

\* &buffer[from .. to] as a sequence (1-based).
Slice(buf, from, to) == [i \in 1 .. (to - from) |-> buf[from + i - 1]]

(***************************************************************************)
(* u32 arithmetic.  A u32 is kept as its two 16-bit halves, the value      *)
(* being hi * 2^16 + lo.  += adds a byte (ovf tells whether the sum left   *)
(* 32 bits); <<= 8 discards the bits shifted out.                          *)
(***************************************************************************)
u32_add(r, b) ==
    LET lo == r.lo + b
        hi == r.hi + (lo \div HALF)
    IN  [hi |-> hi % HALF, lo |-> lo % HALF, ovf |-> r.ovf \/ hi >= HALF]

u32_shl8(r) ==
    [hi |-> (r.hi % 256) * 256 + (r.lo \div 256), lo |-> (r.lo % 256) * 256, ovf |-> r.ovf]

(***************************************************************************)
(* parse_u32.  The accumulator after each of its statements, the first     *)
(* being `let mut result = 0`; data[i] of the source is data[i + 1] here.  *)
(* An index beyond the slice panics, and data[3] is the first one read.    *)
(***************************************************************************)
parse_u32_steps(data) ==
    LET r0 == [hi |-> 0, lo |-> 0, ovf |-> FALSE]
        r1 == u32_add(r0, data[4])
        r2 == u32_shl8(r1)
        r3 == u32_add(r2, data[3])
        r4 == u32_shl8(r3)
        r5 == u32_add(r4, data[2])
        r6 == u32_shl8(r5)
        r7 == u32_add(r6, data[1])
    IN  <<r0, r1, r2, r3, r4, r5, r6, r7>>

parse_u32_panics(data) == Len(data) < 4

parse_u32(data) ==
    LET r == parse_u32_steps(data)[8] IN [hi |-> r.hi, lo |-> r.lo]

(***************************************************************************)
(* load_char: the fields after the call and the index written.             *)
(***************************************************************************)
\* Mutant: the bound check lets index 520 through.
load_char_off_by_one(buf, cnt, ch) ==
    IF cnt <= BUFFER_LEN
    THEN [buffer |-> [i \in DOMAIN buf \cup {cnt} |-> IF i = cnt THEN ch ELSE buf[i]],
          count |-> cnt + 1, touched |-> {cnt}]
    ELSE [buffer |-> buf, count |-> cnt, touched |-> {}]

\* Mutant: the byte is stored but count is not advanced.
load_char_no_advance(buf, cnt, ch) ==
    IF cnt < BUFFER_LEN
    THEN [buffer |-> [buf EXCEPT ![cnt] = ch], count |-> cnt, touched |-> {cnt}]
    ELSE [buffer |-> buf, count |-> cnt, touched |-> {}]

\* Mutant: a full buffer starts again at index 0.
load_char_wraps(buf, cnt, ch) ==
    IF cnt < BUFFER_LEN
    THEN [buffer |-> [buf EXCEPT ![cnt] = ch], count |-> cnt + 1, touched |-> {cnt}]
    ELSE [buffer |-> [buf EXCEPT ![0] = ch], count |-> cnt, touched |-> {0}]

load_char(buf, cnt, ch) ==
    IF cnt < BUFFER_LEN
    THEN [buffer |-> [buf EXCEPT ![cnt] = ch], count |-> cnt + 1, touched |-> {cnt}]
    ELSE [buffer |-> buf, count |-> cnt, touched |-> {}]

(***************************************************************************)
(* handle_loading                                                          *)
(***************************************************************************)
\* Mutant: the escape byte is buffered as well (the else is missing).
handle_loading_buffers_escape(ch) ==
    LET l == load_char(buffer, count, ch)
    IN  /\ buffer' = l.buffer
        /\ count' = l.count
        /\ touched' = l.touched
        /\ state' = IF ch = ESCAPE THEN "Escape" ELSE state
        /\ result' = None

handle_loading(ch) ==
    IF ch = ESCAPE
    THEN /\ state' = "Escape"
         /\ UNCHANGED <<buffer, count>>
         /\ touched' = {}
         /\ result' = None
    ELSE LET l == load_char(buffer, count, ch)
         IN  /\ buffer' = l.buffer
             /\ count' = l.count
             /\ touched' = l.touched
             /\ state' = state
             /\ result' = None

(***************************************************************************)
(* handle_escape.  escape_result is the value of the match expression,     *)
(* Panic when parse_u32 indexes beyond its slice.                          *)
(***************************************************************************)
erase_from(cnt) == cnt - 4
erase_to(cnt) == cnt - 1

\* The 0x06 arm.
decode_erase(buf, cnt) ==
    IF cnt >= 4
    THEN LET data == Slice(buf, erase_from(cnt), erase_to(cnt))
         IN  IF parse_u32_panics(data) THEN Panic
             ELSE Some(ErasePage(parse_u32(data)))
    ELSE Some(BadCommand)

\* Mutant: the page starts where the address starts.
decode_write_page_from_start(buf, cnt) ==
    IF cnt >= num_expected_bytes
    THEN LET start == cnt - num_expected_bytes
             data == Slice(buf, start, start + 4)
         IN  IF parse_u32_panics(data) THEN Panic
             ELSE Some(WritePage(parse_u32(data), start, start + 512))
    ELSE Some(BadCommand)

\* Mutant: too few bytes are passed over in silence.
decode_write_silent(buf, cnt) ==
    IF cnt >= num_expected_bytes
    THEN LET start == cnt - num_expected_bytes
             data == Slice(buf, start, start + 4)
         IN  IF parse_u32_panics(data) THEN Panic
             ELSE Some(WritePage(parse_u32(data), start + 4, start + num_expected_bytes))
    ELSE None

\* Mutant: the frame is taken from the front of the buffer.
decode_write_from_front(buf, cnt) ==
    IF cnt >= num_expected_bytes
    THEN LET start == 0
             data == Slice(buf, start, start + 4)
         IN  IF parse_u32_panics(data) THEN Panic
             ELSE Some(WritePage(parse_u32(data), start + 4, start + num_expected_bytes))
    ELSE Some(BadCommand)

\* The 0x07 arm.
decode_write(buf, cnt) ==
    IF cnt >= num_expected_bytes
    THEN LET start == cnt - num_expected_bytes
             data == Slice(buf, start, start + 4)
         IN  IF parse_u32_panics(data) THEN Panic
             ELSE Some(WritePage(parse_u32(data), start + 4, start + num_expected_bytes))
    ELSE Some(BadCommand)

\* Mutant: the codes of Ping and Info are exchanged.
escape_result_codes_swapped(buf, cnt, ch) ==
    CASE ch = ESCAPE -> None
      [] ch = 1 -> Some(Info)
      [] ch = 3 -> Some(Ping)
      [] ch = 5 -> Some(Reset)
      [] ch = 6 -> decode_erase(buf, cnt)
      [] ch = 7 -> decode_write(buf, cnt)
      [] OTHER -> None

\* Mutant: a wire code is given to one of the undecoded variants.
escape_result_read_range(buf, cnt, ch) ==
    CASE ch = ESCAPE -> None
      [] ch = 1 -> Some(Ping)
      [] ch = 2 -> Some([name |-> "ReadRange"])
      [] ch = 3 -> Some(Info)
      [] ch = 5 -> Some(Reset)
      [] ch = 6 -> decode_erase(buf, cnt)
      [] ch = 7 -> decode_write(buf, cnt)
      [] OTHER -> None

escape_result(buf, cnt, ch) ==
    CASE ch = ESCAPE -> None
      [] ch = 1 -> Some(Ping)
      [] ch = 3 -> Some(Info)
      [] ch = 5 -> Some(Reset)
      [] ch = 6 -> decode_erase(buf, cnt)
      [] ch = 7 -> decode_write(buf, cnt)
      [] OTHER -> None

\* The buffer indices the match expression reads: those of the slices it
\* takes, which parse_u32 prints whole before it indexes them.
escape_reads(cnt, ch) ==
    CASE ch = 6 /\ cnt >= 4 -> erase_from(cnt) .. (erase_to(cnt) - 1)
      [] ch = 7 /\ cnt >= num_expected_bytes ->
            (cnt - num_expected_bytes) .. (cnt - 1)
      [] OTHER -> {}

\* Mutant: count is left as it is when a command is returned.
handle_escape_keeps_count(ch) ==
    LET l == IF ch = ESCAPE THEN load_char(buffer, count, ch)
             ELSE [buffer |-> buffer, count |-> count, touched |-> {}]
        r == escape_result(buffer, count, ch)
    IN  /\ state' = "Loading"
        /\ buffer' = l.buffer
        /\ touched' = l.touched \cup escape_reads(count, ch)
        /\ result' = r
        /\ count' = l.count

\* Mutant: the state returns to Loading only when the byte is consumed.
handle_escape_waits_for_code(ch) ==
    LET l == IF ch = ESCAPE THEN load_char(buffer, count, ch)
             ELSE [buffer |-> buffer, count |-> count, touched |-> {}]
        r == escape_result(buffer, count, ch)
    IN  /\ state' = IF r = None /\ ch # ESCAPE THEN "Escape" ELSE "Loading"
        /\ buffer' = l.buffer
        /\ touched' = l.touched \cup escape_reads(count, ch)
        /\ result' = r
        /\ count' = IF r.tag = "Some" THEN 0 ELSE l.count

\* Mutant: an unassigned code discards the frame.
handle_escape_resets_on_unknown(ch) ==
    LET l == IF ch = ESCAPE THEN load_char(buffer, count, ch)
             ELSE [buffer |-> buffer, count |-> count, touched |-> {}]
        r == escape_result(buffer, count, ch)
    IN  /\ state' = "Loading"
        /\ buffer' = l.buffer
        /\ touched' = l.touched \cup escape_reads(count, ch)
        /\ result' = r
        /\ count' = IF r.tag = "Some" \/ ch # ESCAPE THEN 0 ELSE l.count

\* Mutant: the buffer is zeroed when a command is returned.
handle_escape_clears_buffer(ch) ==
    LET l == IF ch = ESCAPE THEN load_char(buffer, count, ch)
             ELSE [buffer |-> buffer, count |-> count, touched |-> {}]
        r == escape_result(buffer, count, ch)
    IN  /\ state' = "Loading"
        /\ buffer' = IF r.tag = "Some" THEN [i \in DOMAIN buffer |-> 0] ELSE l.buffer
        /\ touched' = l.touched \cup escape_reads(count, ch)
        /\ result' = r
        /\ count' = IF r.tag = "Some" THEN 0 ELSE l.count

handle_escape(ch) ==
    LET l == IF ch = ESCAPE THEN load_char(buffer, count, ch)
             ELSE [buffer |-> buffer, count |-> count, touched |-> {}]
        r == escape_result(buffer, count, ch)
    IN  /\ state' = "Loading"
        /\ buffer' = l.buffer
        /\ touched' = l.touched \cup escape_reads(count, ch)
        /\ result' = r
        /\ count' = IF r.tag = "Some" THEN 0 ELSE l.count

(***************************************************************************)
(* receive                                                                 *)
(***************************************************************************)
Parser_receive(ch) ==
    /\ result # Panic
    /\ IF state = "Loading" THEN handle_loading(ch) ELSE handle_escape(ch)

(***************************************************************************)
(* The host.                                                               *)
(***************************************************************************)
\* tests::make_byte
make_byte(index) == index % 256

\* The unescaped byte the check_write stream puts at buffer index i; past
\* the 516 bytes of the test the stream goes on in the same way.
Datum(i) == IF i < 4 THEN <<239, 190, 173, 222>>[i + 1] ELSE make_byte(i - 4)

NearEdge(c) == c <= Edge \/ c >= num_expected_bytes - 1

\* The unescaped byte the stream sends next, as the host sees it.
OnStream(ch) == ch = Datum(count)

\* An unescaped byte: a plain byte, or the second 0xFC of a pair.
IsLiteral(ch) == (state = "Loading" /\ ch # ESCAPE) \/ (state = "Escape" /\ ch = ESCAPE)

\* A byte other than 0xFC after an escape byte: a command or unknown code.
IsCode(ch) == state = "Escape" /\ ch # ESCAPE

HostSends(ch) ==
    /\ IsCode(ch) => (ch \in Codes /\ codes + odd < MaxOff)
    /\ (IsLiteral(ch) /\ ~OnStream(ch)) =>
            (ch \in OddBytes /\ codes + odd < MaxOff /\ NearEdge(count))
    /\ (state = "Loading" /\ ch = ESCAPE /\ ~OnStream(ch)) =>
            (codes + odd < MaxOff /\ NearEdge(count))
    /\ odd' = IF IsLiteral(ch) /\ ~OnStream(ch) THEN odd + 1 ELSE odd

\* The frame so far: a frame ends with the call that returns Some(_), and
\* the next call starts a new one.
Frame == IF result.tag = "Some" THEN <<>> ELSE lits

receive ==
    \E ch \in Codes \cup OddBytes \cup {Datum(count)} :
        /\ HostSends(ch)
        /\ IsLiteral(ch) => Len(Frame) < BUFFER_LEN + MaxOver
        /\ Parser_receive(ch)
        /\ call' = [ch |-> ch, state |-> state, count |-> count]
        /\ lits' = IF IsLiteral(ch) THEN Append(Frame, ch) ELSE Frame
        /\ codes' = IF IsCode(ch) THEN codes + 1 ELSE codes
        /\ emitted' = IF result'.tag = "Some" THEN emitted + 1 ELSE emitted

(***************************************************************************)
(* Parser::new                                                             *)
(***************************************************************************)
Init ==
    /\ state = "Loading"
    /\ buffer = [i \in 0 .. (BUFFER_LEN - 1) |-> 0]
    /\ count = 0
    /\ result = None
    /\ touched = {}
    /\ call = [ch |-> 0, state |-> "new", count |-> 0]
    /\ lits = <<>>
    /\ codes = 0
    /\ emitted = 0
    /\ odd = 0

Next == receive

Spec == Init /\ [][Next]_vars

TypeOK ==
    /\ state \in {"Loading", "Escape"}
    /\ count \in 0 .. BUFFER_LEN
    /\ odd \in 0 .. MaxOff
    /\ codes \in 0 .. MaxOff
    /\ odd + codes <= MaxOff
    /\ emitted \in 0 .. codes
    /\ Len(lits) <= BUFFER_LEN + MaxOver

(***************************************************************************)
(* receive as a function of the parser and the byte: the fields after the  *)
(* call and what it returns.  StepIsReceiveFn ties it to the action.       *)
(***************************************************************************)
Parser == [state |-> state, buffer |-> buffer, count |-> count]

\* handle_loading
loading_fn(p, ch) ==
    IF ch = ESCAPE
    THEN [state |-> "Escape", buffer |-> p.buffer, count |-> p.count, result |-> None]
    ELSE LET l == load_char(p.buffer, p.count, ch)
         IN  [state |-> p.state, buffer |-> l.buffer, count |-> l.count, result |-> None]

\* Mutant: the state returns to Loading only when the byte is consumed.
escape_fn_waits_for_code(p, ch) ==
    LET l == IF ch = ESCAPE THEN load_char(p.buffer, p.count, ch)
             ELSE [buffer |-> p.buffer, count |-> p.count]
        r == escape_result(p.buffer, p.count, ch)
    IN  [state |-> IF r = None /\ ch # ESCAPE THEN "Escape" ELSE "Loading",
         buffer |-> l.buffer,
         count |-> IF r.tag = "Some" THEN 0 ELSE l.count,
         result |-> r]

\* handle_escape
escape_fn(p, ch) ==
    LET l == IF ch = ESCAPE THEN load_char(p.buffer, p.count, ch)
             ELSE [buffer |-> p.buffer, count |-> p.count]
        r == escape_result(p.buffer, p.count, ch)
    IN  [state |-> "Loading",
         buffer |-> l.buffer,
         count |-> IF r.tag = "Some" THEN 0 ELSE l.count,
         result |-> r]

receive_fn(p, ch) ==
    IF p.state = "Loading" THEN loading_fn(p, ch) ELSE escape_fn(p, ch)

\* Every step of the action is the step receive_fn computes.
StepIsReceiveFn ==
    [][receive_fn(Parser, call'.ch) =
         [state |-> state', buffer |-> buffer', count |-> count', result |-> result']]_vars

(***************************************************************************)
(* Vocabulary of the properties.                                           *)
(***************************************************************************)
\* The u32 whose little-endian bytes are b0 b1 b2 b3.
LittleEndian(b0, b1, b2, b3) == [hi |-> b3 * 256 + b2, lo |-> b1 * 256 + b0]

CommandCodes == {1, 3, 5, 6, 7}

Returned(name) == result.tag = "Some" /\ result.cmd.name = name

\* The last call was made in the Escape state with byte ch.
EscapeCall(ch) == call.state = "Escape" /\ call.ch = ch

\* The bytes a returned WritePage refers to.
PageData == Slice(buffer, result.cmd.from, result.cmd.to)

(***************************************************************************)
(* C1.  Four unescaped bytes b0 b1 b2 b3 fed to a fresh parser, then 0xFC  *)
(* 0x06: the last call returns Some(ErasePage(addr)) with addr the         *)
(* little-endian value of the four bytes.                                  *)
(***************************************************************************)
C1_EraseDecodesAddress ==
    (EscapeCall(6) /\ codes = 1 /\ Len(lits) = 4) =>
        result = Some(ErasePage(LittleEndian(lits[1], lits[2], lits[3], lits[4])))

(***************************************************************************)
(* C2.  receive never aborts: every call returns an Option<Command>.       *)
(***************************************************************************)
C2_ReceiveNeverAborts == result # Panic

(***************************************************************************)
(* C3.  Four address bytes and 512 payload bytes fed to a fresh parser,    *)
(* each 0xFC doubled, then 0xFC 0x07: the last call returns                *)
(* Some(WritePage(addr, data)), addr the little-endian value of the        *)
(* address bytes, data the 512 payload bytes in order; it is the first     *)
(* call that returns Some.                                                 *)
(***************************************************************************)
C3_WritePageRoundTrip ==
    (EscapeCall(7) /\ codes = 1 /\ Len(lits) = 516) =>
        /\ Returned("WritePage")
        /\ result.cmd.addr = LittleEndian(lits[1], lits[2], lits[3], lits[4])
        /\ Len(PageData) = 512
        /\ PageData = SubSeq(lits, 5, 516)
        /\ emitted = 1

C3_Witness ==
    /\ EscapeCall(7) /\ codes = 1 /\ Len(lits) = 516
    /\ Returned("WritePage")
    /\ \E i \in 5 .. 516 : lits[i] = ESCAPE
    /\ odd = 1

(***************************************************************************)
(* C4.  receive returns Some(_) exactly when it is called in the Escape    *)
(* state with one of the command codes 0x01, 0x03, 0x05, 0x06, 0x07.       *)
(***************************************************************************)
C4_SomeIffCommandCode ==
    call.state # "new" =>
        (result.tag = "Some" <=> (call.state = "Escape" /\ call.ch \in CommandCodes))

(***************************************************************************)
(* C5.  In the Escape state 0x01 returns Some(Ping), 0x03 Some(Info) and   *)
(* 0x05 Some(Reset), whatever is buffered; the 0xFC before returns None.   *)
(***************************************************************************)
C5_PayloadFreeCommands ==
    /\ EscapeCall(1) => result = Some(Ping)
    /\ EscapeCall(3) => result = Some(Info)
    /\ EscapeCall(5) => result = Some(Reset)
    /\ (call.state = "Loading" /\ call.ch = ESCAPE) => result = None

\* tests::check_ping: 0xFF, 0xFC, 0x01.
C5_Witness ==
    /\ EscapeCall(1) /\ result = Some(Ping)
    /\ lits = <<255>> /\ call.count = 1 /\ codes = 1

(***************************************************************************)
(* C6.  In the Escape state 0x06 with count < 4 and 0x07 with count < 516  *)
(* return Some(BadCommand) and leave count 0 and the state Loading; no     *)
(* ErasePage is returned with count < 4, no WritePage with count < 516.    *)
(***************************************************************************)
C6_InsufficientPayload ==
    /\ (EscapeCall(6) /\ call.count < 4) =>
            (result = Some(BadCommand) /\ count = 0 /\ state = "Loading")
    /\ (EscapeCall(7) /\ call.count < num_expected_bytes) =>
            (result = Some(BadCommand) /\ count = 0 /\ state = "Loading")
    /\ Returned("ErasePage") => call.count >= 4
    /\ Returned("WritePage") => call.count >= num_expected_bytes

C6_Witness ==
    /\ EscapeCall(7) /\ call.count = num_expected_bytes - 1
    /\ result = Some(BadCommand) /\ count = 0

(***************************************************************************)
(* C7.  After every call that returns Some(_) count is 0, so a later       *)
(* command sees only the bytes of its own frame: fewer than 4 unescaped    *)
(* bytes and 0xFC 0x06 return BadCommand whatever was buffered before.     *)
(***************************************************************************)
C7_CountResetOnEmission ==
    /\ result.tag = "Some" => count = 0
    /\ (EscapeCall(6) /\ Len(lits) < 4) => result = Some(BadCommand)

\* A second frame of three bytes after a frame that had buffered more.
C7_Witness ==
    /\ EscapeCall(6) /\ Len(lits) = 3 /\ result = Some(BadCommand)
    /\ emitted = 2 /\ count = 0
    /\ buffer[3] # 0

(***************************************************************************)
(* C8.  In the Escape state a byte other than 0xFC and the command codes   *)
(* returns None and leaves count and the buffer unchanged, so the bytes    *)
(* buffered before count toward the next command: 2 bytes, 0xFC 0x02,      *)
(* 2 bytes, 0xFC 0x06 is decoded as an erase of the 4 bytes.               *)
(***************************************************************************)
UnknownCodeRetainsFrame ==
    (state = "Escape" /\ call'.ch \notin CommandCodes \cup {ESCAPE}) =>
        (result' = None /\ count' = count /\ buffer' = buffer)

C8_UnknownCodeThenErase ==
    /\ [][UnknownCodeRetainsFrame]_vars
    /\ [](  (EscapeCall(6) /\ codes = 2 /\ Len(lits) = 4 /\ emitted <= 1)
             => result = Some(ErasePage(LittleEndian(lits[1], lits[2], lits[3], lits[4]))))

(***************************************************************************)
(* C9.  count stays within 0 .. 520 and every buffer index receive reads   *)
(* or writes is within 0 .. 519.                                           *)
(***************************************************************************)
C9_CapacityInvariant ==
    /\ count \in 0 .. BUFFER_LEN
    /\ touched \subseteq 0 .. (BUFFER_LEN - 1)

\* A byte arriving when the buffer is full.
C9_Witness ==
    /\ call.state = "Loading" /\ call.ch # ESCAPE /\ call.count = BUFFER_LEN
    /\ count = BUFFER_LEN /\ Len(lits) > BUFFER_LEN

(***************************************************************************)
(* C10.  From Loading with count < 520, 0xFC 0xFC: both calls return None, *)
(* the first only enters Escape, the second returns to Loading, stores     *)
(* 0xFC at index count and adds one to count, all else unchanged.          *)
(***************************************************************************)
C10_DoubleEscape ==
    [][ /\ (state = "Loading" /\ call'.ch = ESCAPE) =>
              (result' = None /\ state' = "Escape" /\ count' = count /\ buffer' = buffer)
        /\ (state = "Escape" /\ call'.ch = ESCAPE /\ count < BUFFER_LEN) =>
              /\ result' = None
              /\ state' = "Loading"
              /\ count' = count + 1
              /\ buffer' = [buffer EXCEPT ![count] = ESCAPE]
      ]_vars

C10_Witness ==
    /\ EscapeCall(ESCAPE) /\ result = None /\ state = "Loading"
    /\ call.count > 0 /\ count = call.count + 1
    /\ buffer[call.count] = ESCAPE /\ buffer[call.count - 1] # 0

(***************************************************************************)
(* C11.  ReadRange, SetAttribute, GetAttribute, CrcInternalFlash and       *)
(* ChangeBaudRate are never returned: whatever receive returns is Ping,    *)
(* Info, Reset, ErasePage, WritePage or BadCommand.                        *)
(***************************************************************************)
Undecoded == {"ReadRange", "SetAttribute", "GetAttribute", "CrcInternalFlash", "ChangeBaudRate"}
Decoded == {"Ping", "Info", "Reset", "ErasePage", "WritePage", "BadCommand"}

C11_OnlyDecodedVariants ==
    result.tag = "Some" =>
        (result.cmd.name \in Decoded /\ result.cmd.name \notin Undecoded)

\* An unassigned code was tried and gave nothing; a command followed.
C11_Witness ==
    /\ result.tag = "Some" /\ result.cmd.name \in Decoded
    /\ codes = 2 /\ emitted = 1

(***************************************************************************)
(* C12.  Every call made in the Escape state leaves the state Loading;     *)
(* the state is Escape after a call exactly when the call was made in      *)
(* Loading with byte 0xFC.  So no two calls in a row are made in Escape.   *)
(***************************************************************************)
C12_EscapeLastsOneByte ==
    /\ call.state = "Escape" => state = "Loading"
    /\ call.state = "new" => state = "Loading"
    /\ call.state # "new" =>
            (state = "Escape" <=> (call.state = "Loading" /\ call.ch = ESCAPE))

\* An unassigned code emits nothing and still ends the escape.
C12_Witness ==
    /\ EscapeCall(2) /\ result = None /\ state = "Loading"
    /\ call.count > 0

(***************************************************************************)
(* C13.  In Loading a byte other than 0xFC returns None, keeps the state,  *)
(* and with count < 520 is stored at index count, count growing by one     *)
(* and no other position changing; 0xFC in Loading changes the state only. *)
(***************************************************************************)
C13_LoadingAppends ==
    [][ /\ (state = "Loading" /\ call'.ch # ESCAPE) =>
              /\ result' = None
              /\ state' = "Loading"
              /\ count < BUFFER_LEN =>
                    /\ count' = count + 1
                    /\ buffer' = [buffer EXCEPT ![count] = call'.ch]
        /\ (state = "Loading" /\ call'.ch = ESCAPE) =>
              /\ state' = "Escape"
              /\ count' = count
              /\ buffer' = buffer
      ]_vars

\* A stray 0xFF appended after buffered bytes.
C13_Witness ==
    /\ call.state = "Loading" /\ call.ch = 255 /\ result = None
    /\ call.count > 0 /\ count = call.count + 1
    /\ buffer[call.count] = 255 /\ buffer[call.count - 1] # 0

(***************************************************************************)
(* C14.  With count = 520 a plain byte in Loading and a doubled 0xFC are   *)
(* dropped: count stays 520, the buffer is unchanged, None is returned.    *)
(* So after more than 520 unescaped bytes in a frame, 0xFC 0x07 returns    *)
(* the WritePage of buffer positions 4..7 and 8..519, the 5th to 520th     *)
(* bytes of the frame.                                                     *)
(***************************************************************************)
FullBufferDrops ==
    (/\ count = BUFFER_LEN
     /\ \/ state = "Loading" /\ call'.ch # ESCAPE
        \/ state = "Escape" /\ call'.ch = ESCAPE) =>
        (count' = BUFFER_LEN /\ buffer' = buffer /\ result' = None)

TruncatedPage ==
    (EscapeCall(7) /\ Len(lits) > BUFFER_LEN) =>
        /\ Returned("WritePage")
        /\ result.cmd.addr = LittleEndian(lits[5], lits[6], lits[7], lits[8])
        /\ result.cmd.from = 8 /\ result.cmd.to = BUFFER_LEN
        /\ PageData = SubSeq(lits, 9, BUFFER_LEN)

C14_OverflowTruncates == [][FullBufferDrops]_vars /\ []TruncatedPage

\* 522 bytes were sent; the page is not the last 512 of them.
C14_Witness ==
    /\ EscapeCall(7) /\ Len(lits) = BUFFER_LEN + 2 /\ Returned("WritePage")
    /\ PageData = SubSeq(lits, 9, BUFFER_LEN)
    /\ PageData # SubSeq(lits, 11, BUFFER_LEN + 2)

(***************************************************************************)
(* C15.  In the Escape state with 516 <= count <= 520, 0x07 returns        *)
(* WritePage(addr, data): addr the little-endian value of                  *)
(* buffer[count-516 .. count-512), data buffer[count-512 .. count).        *)
(***************************************************************************)
C15_WritePageUsesLast516 ==
    [][ (state = "Escape" /\ call'.ch = 7 /\ count >= num_expected_bytes) =>
            /\ result' = Some(WritePage(
                    LittleEndian(buffer[count - 516], buffer[count - 515],
                                 buffer[count - 514], buffer[count - 513]),
                    count - 512, count))
            /\ Slice(buffer', result'.cmd.from, result'.cmd.to)
                 = Slice(buffer, count - 512, count)
            /\ Len(Slice(buffer', result'.cmd.from, result'.cmd.to)) = 512
      ]_vars

\* Two bytes more than a frame are buffered; the first two are ignored.
C15_Witness ==
    /\ EscapeCall(7) /\ call.count = num_expected_bytes + 2
    /\ Returned("WritePage") /\ result.cmd.from = 6 /\ result.cmd.to = 518

(***************************************************************************)
(* C16.  count is min(520, n), n the number of unescaped bytes of the      *)
(* frame so far (a plain byte in Loading or a 0xFC 0xFC pair counts one;   *)
(* the escape byte and an unassigned code count nothing), and              *)
(* buffer[0 .. count) holds the first count of them in order.              *)
(***************************************************************************)
C16_CountTracksFrame ==
    /\ count = IF Len(Frame) < BUFFER_LEN THEN Len(Frame) ELSE BUFFER_LEN
    /\ \A i \in 1 .. count : buffer[i - 1] = Frame[i]

\* A second frame, after an unassigned code, over the bytes of the first.
C16_Witness ==
    /\ emitted = 1 /\ codes = 2 /\ EscapeCall(2)
    /\ count = 3 /\ Len(lits) = 3
    /\ buffer[3] # 0

(***************************************************************************)
(* C17.  From every reachable parser state the bytes 0x00, 0xFC, 0x01      *)
(* make the third call return Some(Ping) and leave the state Loading and   *)
(* count 0: a command can always be emitted again.                         *)
(***************************************************************************)
AfterResync == receive_fn(receive_fn(receive_fn(Parser, 0), ESCAPE), 1)

C17_ResyncAlwaysPossible ==
    /\ AfterResync.result = Some(Ping)
    /\ AfterResync.state = "Loading"
    /\ AfterResync.count = 0

\* The three bytes fed with 516 bytes buffered: 0x00 is the stream's next.
C17_Witness ==
    /\ EscapeCall(1) /\ result = Some(Ping) /\ state = "Loading" /\ count = 0
    /\ call.count = num_expected_bytes + 1
    /\ Len(lits) = call.count /\ lits[Len(lits)] = 0

(***************************************************************************)
(* C18.  A call in the Escape state with a command code leaves all 520     *)
(* buffer bytes as they were, so a returned WritePage refers to the bytes  *)
(* buffered at emission; the buffer changes only where load_char stores    *)
(* a byte, at index count, one position a call.                            *)
(***************************************************************************)
C18_EmissionKeepsBuffer ==
    [][ /\ (state = "Escape" /\ call'.ch \in CommandCodes) => buffer' = buffer
        /\ \/ buffer' = buffer
           \/ /\ (state = "Loading" /\ call'.ch # ESCAPE) \/ (state = "Escape" /\ call'.ch = ESCAPE)
              /\ count < BUFFER_LEN
              /\ buffer' = [buffer EXCEPT ![count] = call'.ch]
      ]_vars

\* A page returned from a full buffer, which still holds the whole frame.
C18_Witness ==
    /\ EscapeCall(7) /\ Returned("WritePage") /\ call.count = BUFFER_LEN
    /\ Len(lits) = BUFFER_LEN
    /\ \A i \in 1 .. BUFFER_LEN : buffer[i - 1] = lits[i]

(***************************************************************************)
(* C19.  parse_u32 of a 4-byte slice d is d[0] + d[1]*2^8 + d[2]*2^16 +    *)
(* d[3]*2^24, its accumulator never leaves 32 bits, and both call sites    *)
(* pass it a slice of exactly 4 bytes.                                     *)
(***************************************************************************)
ParsesLittleEndian(d) ==
    /\ Len(d) = 4
    /\ parse_u32(d) = LittleEndian(d[1], d[2], d[3], d[4])
    /\ \A i \in 1 .. 8 : ~parse_u32_steps(d)[i].ovf

C19_ParseU32CallSites ==
    /\ (EscapeCall(6) /\ call.count >= 4) =>
            ParsesLittleEndian(Slice(buffer, erase_from(call.count), erase_to(call.count)))
    /\ (EscapeCall(7) /\ call.count >= num_expected_bytes) =>
            ParsesLittleEndian(Slice(buffer, call.count - 516, call.count - 512))
====
